---- MODULE Spec2Model ----
(***************************************************************************)
(* A model of nifti/niftifile.py (class NiftiFile): the conversion between *)
(* a NIfTI header struct and a Python dictionary, the filename handling of *)
(* save(), and the life cycle of the image struct a NiftiFile object owns. *)
(*                                                                         *)
(* Conventions.                                                            *)
(*  - A header struct (nifti_1_header) is a record of its fields.          *)
(*  - A header dictionary is a function from key strings to values.        *)
(*  - A Python string that is a file name is the sequence of its           *)
(*    '.'-separated components, i.e. what str.split('.') returns:  ''  is  *)
(*    <<"">>, 'brain.nii.gz' is <<"brain","nii","gz">>, and  a + '.' + b   *)
(*    is  a \o b.                                                          *)
(*  - Numbers are integers; the values used are exactly representable in   *)
(*    every numeric field of the header.                                   *)
(*  - An exception is the name of its Python class; "none" is a normal     *)
(*    return.                                                              *)
(***************************************************************************)
EXTENDS Integers, Sequences, FiniteSets, TLC

VARIABLES
    nhdr,   \* a header struct handed to the static dictionary functions
    nimg,   \* self.__nimg: the image struct of the NiftiFile object, or NoImage
    disk,   \* the image files that exist: file name -> voxel data
    born,   \* dim and datatype of the session when it was constructed
    calls,  \* the number of calls made on the NiftiFile object
    last,   \* the last call: its name, arguments, exception and return value
    prev    \* nhdr, nimg and disk as they were before the last call

vars == <<nhdr, nimg, disk, born, calls, last, prev>>

(***************************************************************************)
(* Bounds of the model.                                                    *)
(***************************************************************************)
MaxPatchKeys == 2   \* keys in one header dictionary handed in by a caller
MaxSteps == 2       \* calls on one NiftiFile object after its construction

None == "None"                \* a value that is not looked at
NoImage == [none |-> TRUE]    \* self.__nimg is None
NoData == <<>>                \* the data pointer of the image struct is NULL
NoName == <<>>                \* None where a file name is expected

(***************************************************************************)
(* Strings of given lengths, to stand on both sides of the length limits.  *)
(***************************************************************************)
X5 == "xxxxx"
X9 == X5 \o "xxxx"
X10 == X5 \o X5
X15 == X10 \o X5
X16 == X15 \o "x"
X23 == X10 \o X10 \o "xxx"
X24 == X23 \o "x"
X79 == X23 \o X23 \o X23 \o X10
X80 == X79 \o "x"

(***************************************************************************)
(* nifti_1_header                                                          *)
(***************************************************************************)
\* the header elements nhdr2dict copies one to one
auto_convert ==
    { "session_error", "extents", "sizeof_hdr",
      "slice_duration", "slice_start", "xyzt_units",
      "cal_max", "intent_p1", "intent_p2", "intent_p3",
      "intent_code", "sform_code", "cal_min", "scl_slope",
      "slice_code", "bitpix", "descrip", "glmin", "dim_info",
      "glmax", "data_type", "aux_file", "intent_name",
      "vox_offset", "db_name", "scl_inter", "magic",
      "datatype", "regular", "slice_end", "qform_code",
      "toffset" }

\* the keys updateNiftiHeaderFromDict looks at, in the order it does
UpdateOrder ==
    << "data_type", "db_name", "extents", "session_error", "regular",
       "dim_info", "dim", "intent_p1", "intent_p2", "intent_p3",
       "intent_code", "datatype", "bitpix", "slice_start", "pixdim",
       "vox_offset", "scl_slope", "scl_inter", "slice_end", "slice_code",
       "xyzt_units", "cal_max", "cal_min", "slice_duration", "toffset",
       "glmax", "glmin", "descrip", "aux_file", "qform_code", "sform_code",
       "quatern", "qoffset", "sform", "intent_name", "magic" >>

Ones(n) == [i \in 1..n |-> 1]
Zeros(n) == [i \in 1..n |-> 0]

\* the header of the template image nifti_simple_init_nim() returns, as
\* nifti_convert_nim2nhdr() gives it back
TemplateHeader ==
    [ session_error |-> 0, extents |-> 0, sizeof_hdr |-> 348,
      slice_duration |-> 0, slice_start |-> 0, xyzt_units |-> 0,
      cal_max |-> 0, intent_p1 |-> 0, intent_p2 |-> 0, intent_p3 |-> 0,
      intent_code |-> 0, sform_code |-> 0, cal_min |-> 0, scl_slope |-> 0,
      slice_code |-> 0, bitpix |-> 32, descrip |-> "", glmin |-> 0,
      dim_info |-> "", glmax |-> 0, data_type |-> "", aux_file |-> "",
      intent_name |-> "", vox_offset |-> 0, db_name |-> "", scl_inter |-> 0,
      magic |-> "n+1", datatype |-> "NIFTI_TYPE_FLOAT32", regular |-> "r",
      slice_end |-> 0, qform_code |-> 0, toffset |-> 0,
      dim |-> <<3>> \o Ones(7),
      pixdim |-> <<1>> \o Ones(7),
      srow_x |-> Zeros(4), srow_y |-> Zeros(4), srow_z |-> Zeros(4),
      quatern_b |-> 0, quatern_c |-> 0, quatern_d |-> 0,
      qoffset_x |-> 0, qoffset_y |-> 0, qoffset_z |-> 0 ]

(***************************************************************************)
(* nhdr2dict                                                               *)
(***************************************************************************)
DictKeys == auto_convert \cup {"pixdim", "dim", "sform", "quatern", "qoffset"}

\* an nhdr2dict that builds the last row of 'sform' from a field of the
\* header as it does the rows above it
nhdr2dictLastRowFromField(h) ==
    [ k \in DictKeys |->
        CASE k = "pixdim"  -> [i \in 1..8 |-> h.pixdim[i]]
          [] k = "dim"     -> [i \in 1..8 |-> h.dim[i]]
          [] k = "sform"   -> << [i \in 1..4 |-> h.srow_x[i]],
                                 [i \in 1..4 |-> h.srow_y[i]],
                                 [i \in 1..4 |-> h.srow_y[i]],
                                 [i \in 1..4 |-> h.srow_z[i]] >>
          [] k = "quatern" -> << h.quatern_b, h.quatern_c, h.quatern_d >>
          [] k = "qoffset" -> << h.qoffset_x, h.qoffset_y, h.qoffset_z >>
          [] OTHER         -> h[k] ]

nhdr2dict(h) ==
    [ k \in DictKeys |->
        CASE k = "pixdim"  -> [i \in 1..8 |-> h.pixdim[i]]
          [] k = "dim"     -> [i \in 1..8 |-> h.dim[i]]
          [] k = "sform"   -> << [i \in 1..4 |-> h.srow_x[i]],
                                 [i \in 1..4 |-> h.srow_y[i]],
                                 [i \in 1..4 |-> h.srow_y[i]],
                                 <<0, 0, 0, 1>> >>
          [] k = "quatern" -> << h.quatern_b, h.quatern_c, h.quatern_d >>
          [] k = "qoffset" -> << h.qoffset_x, h.qoffset_y, h.qoffset_z >>
          [] OTHER         -> h[k] ]

(***************************************************************************)
(* updateNiftiHeaderFromDict                                               *)
(***************************************************************************)
\* numpy's  m.shape == (4,4)  for a matrix given as the sequence of its rows
IsShape44(m) == Len(m) = 4 /\ \A r \in 1..4 : Len(m[r]) = 4

\* the check the code makes on the value of a key before it stores it
CheckKey(k, v) ==
    CASE k = "data_type"   -> IF Len(v) > 9  THEN "ValueError" ELSE "none"
      [] k = "db_name"     -> IF Len(v) > 79 THEN "ValueError" ELSE "none"
      [] k = "regular"     -> IF Len(v) > 1  THEN "ValueError" ELSE "none"
      [] k = "dim_info"    -> IF Len(v) > 1  THEN "ValueError" ELSE "none"
      [] k = "descrip"     -> IF Len(v) > 79 THEN "ValueError" ELSE "none"
      [] k = "aux_file"    -> IF Len(v) > 23 THEN "ValueError" ELSE "none"
      [] k = "quatern"     -> IF Len(v) # 3  THEN "ValueError" ELSE "none"
      [] k = "qoffset"     -> IF Len(v) # 3  THEN "ValueError" ELSE "none"
      [] k = "sform"       -> IF ~IsShape44(v) THEN "ValueError" ELSE "none"
      [] k = "intent_name" -> IF Len(v) > 15 THEN "ValueError" ELSE "none"
      [] k = "magic"       -> IF v # "ni1" /\ v # "n+1"
                              THEN "ValueError" ELSE "none"
      [] OTHER             -> "none"

\* for i in range(8): a[i] = v[i]   as far as it gets
AssignElements(a, v) ==
    [i \in 1..8 |-> IF i <= Len(v) THEN v[i] ELSE a[i]]

\* the stores the code makes for a key whose value passed the check
StoreKey(h, k, v) ==
    CASE k = "dim"     -> [h EXCEPT !.dim = AssignElements(h.dim, v)]
      [] k = "pixdim"  -> [h EXCEPT !.pixdim = AssignElements(h.pixdim, v)]
      [] k = "quatern" -> [h EXCEPT !.quatern_b = v[1],
                                    !.quatern_c = v[2],
                                    !.quatern_d = v[3]]
      [] k = "qoffset" -> [h EXCEPT !.qoffset_x = v[1],
                                    !.qoffset_y = v[2],
                                    !.qoffset_z = v[3]]
      [] k = "sform"   -> [h EXCEPT !.srow_x = [i \in 1..4 |-> v[1][i]],
                                    !.srow_y = [i \in 1..4 |-> v[2][i]],
                                    !.srow_z = [i \in 1..4 |-> v[3][i]]]
      [] OTHER         -> [h EXCEPT ![k] = v]

\* the exception a store ends with, after the stores it made
StoreError(k, v) ==
    IF k \in {"dim", "pixdim"} /\ Len(v) < 8 THEN "IndexError" ELSE "none"

\* the key whose store sets a field of the header struct
KeyOfField(f) ==
    CASE f \in {"quatern_b", "quatern_c", "quatern_d"} -> "quatern"
      [] f \in {"qoffset_x", "qoffset_y", "qoffset_z"} -> "qoffset"
      [] f \in {"srow_x", "srow_y", "srow_z"}          -> "sform"
      [] OTHER                                         -> f

\* updateNiftiHeaderFromDict(nhdr, hdrdict): the header as the call leaves
\* it and the exception it raises. The keys present are handled in the order
\* of UpdateOrder, each by its check and then its stores, up to the first
\* one that raises; the stores of different keys go to different fields.
updateNiftiHeaderFromDict(h, hdrdict) ==
    LET present == { i \in 1..Len(UpdateOrder) : UpdateOrder[i] \in DOMAIN hdrdict }
        Check(i) == CheckKey(UpdateOrder[i], hdrdict[UpdateOrder[i]])
        Store(i) == StoreError(UpdateOrder[i], hdrdict[UpdateOrder[i]])
        raising == { i \in present : Check(i) # "none" \/ Store(i) # "none" }
        stop == IF raising = {} THEN Len(UpdateOrder) + 1
                ELSE CHOOSE i \in raising : \A j \in raising : i <= j
        stored == { UpdateOrder[i] :
                      i \in { j \in present :
                                j < stop \/ (j = stop /\ Check(j) = "none") } }
    IN  [ h |-> [ f \in DOMAIN h |->
                    IF KeyOfField(f) \in stored
                    THEN StoreKey(h, KeyOfField(f), hdrdict[KeyOfField(f)])[f]
                    ELSE h[f] ],
          err |-> IF raising = {} THEN "none"
                  ELSE IF Check(stop) # "none" THEN Check(stop)
                  ELSE Store(stop) ]

(***************************************************************************)
(* The header dictionaries a caller hands in.                              *)
(***************************************************************************)
\* a 4x4 matrix with four different rows, the last one not (0,0,0,1)
Matrix44 == << <<1, 0, 0, 10>>, <<0, 2, 0, 20>>, <<0, 0, 3, 30>>, <<9, 9, 9, 9>> >>
Matrix33 == << <<1, 0, 0>>, <<0, 2, 0>>, <<0, 0, 3>> >>

PatchKeys ==
    { "data_type", "db_name", "extents", "regular", "dim", "datatype",
      "bitpix", "pixdim", "cal_min", "descrip", "aux_file", "quatern",
      "qoffset", "sform", "intent_name", "magic", "comment" }

\* the values tried for a key: some the validation table allows, some not
PatchValues(k) ==
    CASE k = "data_type"   -> {X9, X10}
      [] k = "db_name"     -> {X79, X80}
      [] k = "extents"     -> {7}
      [] k = "regular"     -> {"q", "", "qq"}
      [] k = "dim"         -> { <<4, 2, 2, 2, 2, 5, 0, 5>>,
                                <<4, 2, 2, 2, 2, 5, 5>>,
                                <<4, 2, 2, 2, 2, 5, 5, 5, 5>> }
      [] k = "datatype"    -> {"NIFTI_TYPE_INT16"}
      [] k = "bitpix"      -> {16}
      [] k = "pixdim"      -> { <<-1, 2, 2, 2, 1, 1, 1, 1>>, <<-1, 2, 2>> }
      [] k = "cal_min"     -> {5}
      [] k = "descrip"     -> {"scan", X79, X80}
      [] k = "aux_file"    -> {X23, X24}
      [] k = "quatern"     -> { <<1, 2, 3>>, <<1, 2>> }
      [] k = "qoffset"     -> { <<4, 5, 6>>, <<4, 5, 6, 7>> }
      [] k = "sform"       -> {Matrix44, Matrix33}
      [] k = "intent_name" -> {X15, X16}
      [] k = "magic"       -> {"ni1", "n+1", "bad"}
      [] k = "comment"     -> {"not a header element"}

EmptyDict == [k \in {} |-> 0]

\* the dictionaries with exactly n of the keys
RECURSIVE DictsOfSize(_)
DictsOfSize(n) ==
    IF n = 0 THEN {EmptyDict}
    ELSE UNION { UNION { { (k :> v) @@ d : v \in PatchValues(k) }
                         : k \in PatchKeys \ DOMAIN d }
                 : d \in DictsOfSize(n - 1) }

Patches == UNION { DictsOfSize(n) : n \in 0..MaxPatchKeys }

(***************************************************************************)
(* Calls of the two static dictionary functions on a header struct.       *)
(***************************************************************************)
\* a header as read from a file whose sform is set
FileHeader ==
    [TemplateHeader EXCEPT !.sform_code = 1,
                           !.srow_x = <<2, 0, 0, 11>>,
                           !.srow_y = <<0, 3, 0, 12>>,
                           !.srow_z = <<0, 0, 4, 13>>,
                           !.descrip = "old", !.data_type = "old",
                           !.datatype = "NIFTI_TYPE_INT8", !.bitpix = 8,
                           !.dim = <<3, 2, 1, 1, 1, 1, 1, 1>>]

Headers == {TemplateHeader, FileHeader}

NoCall == [op |-> "none", arg |-> None, patch |-> EmptyDict, err |-> "none",
           ret |-> None]

Snapshot == [nhdr |-> nhdr, nimg |-> nimg, disk |-> disk]

InitDict ==
    /\ nhdr \in Headers
    /\ nimg = NoImage
    /\ disk = EmptyDict
    /\ born = None
    /\ calls = 0
    /\ last = NoCall
    /\ prev = [nhdr |-> nhdr, nimg |-> NoImage, disk |-> EmptyDict]

\* NiftiFile.updateNiftiHeaderFromDict(nhdr, hdrdict)
CallUpdate ==
    /\ last.op = "none"
    /\ \E hdrdict \in Patches :
        LET r == updateNiftiHeaderFromDict(nhdr, hdrdict) IN
        /\ nhdr' = r.h
        /\ last' = [op |-> "updateNiftiHeaderFromDict", arg |-> None,
                    patch |-> hdrdict, err |-> r.err, ret |-> None]
    /\ prev' = Snapshot
    /\ UNCHANGED <<nimg, disk, born, calls>>

\* NiftiFile.nhdr2dict(nhdr); last.patch stays the dictionary of the update
\* before it, if there was one
CallToDict ==
    /\ last.op # "nhdr2dict"
    /\ last.err = "none"
    /\ last' = [op |-> "nhdr2dict", arg |-> None, patch |-> last.patch,
                err |-> "none", ret |-> nhdr2dict(nhdr)]
    /\ prev' = Snapshot
    /\ UNCHANGED <<nhdr, nimg, disk, born, calls>>

NextDict == CallUpdate \/ CallToDict

SpecDict == InitDict /\ [][NextDict]_vars

(***************************************************************************)
(* The validation table of the dictionary interface.                       *)
(***************************************************************************)
ValidValue(k, v) ==
    CASE k = "data_type"              -> Len(v) <= 9
      [] k \in {"db_name", "descrip"} -> Len(v) <= 79
      [] k \in {"regular", "dim_info"} -> Len(v) = 1
      [] k = "aux_file"               -> Len(v) <= 23
      [] k = "intent_name"            -> Len(v) <= 15
      [] k = "magic"                  -> v \in {"ni1", "n+1"}
      [] k \in {"quatern", "qoffset"} -> Len(v) = 3
      [] k = "sform"                  -> Len(v) = 4 /\ \A r \in 1..4 : Len(v[r]) = 4
      [] k \in {"dim", "pixdim"}      -> Len(v) = 8
      [] OTHER                        -> TRUE

ValidPatch(d) == \A k \in DOMAIN d : ValidValue(k, d[k])

\* C1: updateNiftiHeaderFromDict is all-or-nothing: when a dictionary in
\* which some present key breaks its rule makes the call fail, every field of
\* the header is as it was before the call, also the fields whose valid keys
\* are handled before the invalid one.
C1_AllOrNothing ==
    (last.op = "updateNiftiHeaderFromDict" /\ ~ValidPatch(last.patch)
                                           /\ last.err # "none")
        => nhdr = prev.nhdr

\* C2: the 'sform' entry nhdr2dict returns has srow_x, srow_y and srow_z
\* as its rows 0, 1 and 2, each row from its own field, and (0,0,0,1) as
\* its row 3.
C2_SformRowsFromOwnFields ==
    last.op = "nhdr2dict"
        => last.ret["sform"] = <<nhdr.srow_x, nhdr.srow_y, nhdr.srow_z,
                                 <<0, 0, 0, 1>> >>

\* C3: after updateNiftiHeaderFromDict with a valid dictionary, nhdr2dict
\* maps each patched field name to the patched value; for 'sform', rows
\* 0 to 2 of the matrix returned are rows 0 to 2 of the matrix patched in.
C3_DictionaryRoundTrip ==
    (last.op = "nhdr2dict" /\ ValidPatch(last.patch))
        => \A k \in DOMAIN last.patch \cap DictKeys :
              IF k = "sform"
              THEN \A r \in 1..3 : last.ret[k][r] = last.patch[k][r]
              ELSE last.ret[k] = last.patch[k]

(***************************************************************************)
(* The image struct (nifti_image) of a NiftiFile object: the header fields *)
(* h, the names fname and iname of the header and image file, the          *)
(* nifti_type and the voxel data (NoData when not in memory).                *)
(***************************************************************************)
filetypes == { "ANALYZE", "NIFTI", "NIFTI_PAIR", "ANALYZE_GZ", "NIFTI_GZ",
               "NIFTI_PAIR_GZ" }

numpy2nifti_dtype_map ==
    [ uint8 |-> "NIFTI_TYPE_UINT8", int8 |-> "NIFTI_TYPE_INT8",
      uint16 |-> "NIFTI_TYPE_UINT16", int16 |-> "NIFTI_TYPE_INT16",
      uint32 |-> "NIFTI_TYPE_UINT32", int32 |-> "NIFTI_TYPE_INT32",
      uint64 |-> "NIFTI_TYPE_UINT64", int64 |-> "NIFTI_TYPE_INT64",
      float32 |-> "NIFTI_TYPE_FLOAT32", float64 |-> "NIFTI_TYPE_FLOAT64",
      complex128 |-> "NIFTI_TYPE_COMPLEX128" ]

\* numpydtype2niftidtype: the datatype id, or the exception
numpydtype2niftidtype(array) ==
    IF array.dtype \notin DOMAIN numpy2nifti_dtype_map
    THEN [err |-> "ValueError", ret |-> None]
    ELSE [err |-> "none", ret |-> numpy2nifti_dtype_map[array.dtype]]

EmptyName == <<"">>

\* '.'.join(parts)
Join(parts) == IF parts = <<>> THEN EmptyName ELSE parts

\* splitFilename: basename and extension, or the exception of parts[-2]
\* on a list of one element
splitFilename(filename) ==
    LET parts == filename
        n == Len(parts)
    IN  IF parts[n] = "gz"
        THEN IF n < 2
             THEN [err |-> "IndexError", base |-> None, ext |-> None]
             ELSE IF parts[n - 1] # "nii" /\ parts[n - 1] # "hdr"
             THEN [err |-> "none", base |-> filename, ext |-> EmptyName]
             ELSE [err |-> "none", base |-> Join(SubSeq(parts, 1, n - 2)),
                   ext |-> Join(SubSeq(parts, n - 1, n))]
        ELSE IF parts[n] # "nii" /\ parts[n] # "hdr"
             THEN [err |-> "none", base |-> filename, ext |-> EmptyName]
             ELSE [err |-> "none", base |-> Join(SubSeq(parts, 1, n - 1)),
                   ext |-> <<parts[n]>>]

\* clibs.nifti_convert_nim2nhdr(nimg): the header of an image struct
nifti_convert_nim2nhdr(img) == img.h

\* the name of the image file that goes with a header file name
ImageName(fname) ==
    [i \in 1..Len(fname) |-> IF fname[i] = "hdr" /\ i >= Len(fname) - 1
                             THEN "img" ELSE fname[i]]

(***************************************************************************)
(* The geometry functions of the C library. A 4x4 matrix a caller hands in *)
(* is the sequence of its rows. The matrices the library computes are      *)
(* terms that name the function and its arguments: two of them are equal   *)
(* exactly when they come from the same function and the same arguments.   *)
(***************************************************************************)
Sgn(x) == IF x < 0 THEN -1 ELSE 1
Abs(x) == IF x < 0 THEN -x ELSE x

\* clibs.nifti_quatern_to_mat44: the qform matrix of a quaternion, the
\* offsets, the voxel sizes and qfac
nifti_quatern_to_mat44(qb, qc, qd, qx, qy, qz, dx, dy, dz, qfac) ==
    << "nifti_quatern_to_mat44", << qb, qc, qd, qx, qy, qz, dx, dy, dz, qfac >> >>

\* clibs.nifti_mat44_inverse
nifti_mat44_inverse(m) == << "nifti_mat44_inverse", m >>

\* clibs.nifti_mat44_to_quatern, for a matrix whose upper left 3x3 block is
\* diagonal: (qb, qc, qd, qx, qy, qz, dx, dy, dz, qfac). The voxel sizes are
\* the lengths of the columns, qfac is the sign of the determinant of the
\* block (its third column is negated when that is negative), and what is
\* left is no rotation or the half turn about one axis.
nifti_mat44_to_quatern(m) ==
    LET r11 == Sgn(m[1][1])
        r22 == Sgn(m[2][2])
        qfac == r11 * r22 * Sgn(m[3][3])
        r33 == qfac * Sgn(m[3][3])
        turned == r11 + r22 + r33 # 3
        len(x) == IF x = 0 THEN 1 ELSE Abs(x)
    IN  << IF turned /\ r11 = 1 THEN 1 ELSE 0,
           IF turned /\ r11 # 1 /\ r22 = 1 THEN 1 ELSE 0,
           IF turned /\ r11 # 1 /\ r22 # 1 THEN 1 ELSE 0,
           m[1][4], m[2][4], m[3][4],
           len(m[1][1]), len(m[2][2]), len(m[3][3]), qfac >>

\* clibs.nifti_convert_nhdr2nim(nhdr, fname): an image struct without
\* data for a header, or NoImage for a header that has no 1 to 7 dimensions.
\* The struct keeps, next to the header fields, qfac and the four matrices
\* the library derives from the header: the qform and the sform (whose last
\* row it sets to (0,0,0,1)) and their inverses, as it derives them for a
\* header whose qform_code and sform_code are set.
nifti_convert_nhdr2nim(h, fname) ==
    IF h.dim[1] \notin 1..7 THEN NoImage
    ELSE LET qfac == IF h.pixdim[1] < 0 THEN -1 ELSE 1
             qto_xyz == nifti_quatern_to_mat44(
                            h.quatern_b, h.quatern_c, h.quatern_d,
                            h.qoffset_x, h.qoffset_y, h.qoffset_z,
                            h.pixdim[2], h.pixdim[3], h.pixdim[4], qfac)
             sto_xyz == << h.srow_x, h.srow_y, h.srow_z, <<0, 0, 0, 1>> >>
    IN   [ h |-> h, fname |-> fname, iname |-> ImageName(fname),
           nifti_type |-> IF h.magic = "n+1" THEN "NIFTI_FTYPE_NIFTI1_1"
                          ELSE IF h.magic = "ni1" THEN "NIFTI_FTYPE_NIFTI1_2"
                          ELSE "NIFTI_FTYPE_ANALYZE",
           data |-> NoData,
           qfac |-> qfac,
           qto_xyz |-> qto_xyz, qto_ijk |-> nifti_mat44_inverse(qto_xyz),
           sto_xyz |-> sto_xyz, sto_ijk |-> nifti_mat44_inverse(sto_xyz) ]

\* __haveImageData, for an object that has an image struct
haveImageData(img) == img.data # NoData

\* the state a method leaves behind and the exception it raises
Outcome(img, dsk, err) == [nimg |-> img, disk |-> dsk, err |-> err]

\* load(): clibs.nifti_image_load reads the voxel data from the image file
\* the struct names, and fails when there is no such file
Load(img, dsk) ==
    IF img = NoImage THEN Outcome(img, dsk, "RuntimeError")
    ELSE IF img.iname \notin DOMAIN dsk THEN Outcome(img, dsk, "RuntimeError")
    ELSE Outcome([img EXCEPT !.data = dsk[img.iname]], dsk, "none")

\* unload()
Unload(img, dsk) ==
    IF img = NoImage THEN Outcome(img, dsk, "RuntimeError")
    ELSE Outcome([img EXCEPT !.data = NoData], dsk, "none")

\* asarray(): load the data if it is not in memory
AsArray(img, dsk) ==
    IF img = NoImage THEN Outcome(img, dsk, "RuntimeError")
    ELSE IF ~haveImageData(img) THEN Load(img, dsk)
    ELSE Outcome(img, dsk, "none")

RECURSIVE SeqMax(_)
SeqMax(q) == IF Len(q) = 1 THEN q[1]
             ELSE LET m == SeqMax(Tail(q)) IN IF q[1] > m THEN q[1] ELSE m
RECURSIVE SeqMin(_)
SeqMin(q) == IF Len(q) = 1 THEN q[1]
             ELSE LET m == SeqMin(Tail(q)) IN IF q[1] < m THEN q[1] ELSE m

\* updateCalMinMax: self.data loads the data if it is not in memory
updateCalMinMax(img, dsk) ==
    LET a == AsArray(img, dsk) IN
    IF a.err # "none" THEN a
    ELSE Outcome([a.nimg EXCEPT !.h.cal_max = SeqMax(a.nimg.data),
                                !.h.cal_min = SeqMin(a.nimg.data)],
                 dsk, "none")

\* Python's  not x  for a file name or None
Falsy(x) == x = NoName \/ x = EmptyName

\* filetype.startswith('NIFTI'), for one of the filetypes
StartsWithNIFTI(filetype) ==
    filetype \in {"NIFTI", "NIFTI_PAIR", "NIFTI_GZ", "NIFTI_PAIR_GZ"}

\* a test for the one filetype 'NIFTI_PAIR' in the place of startswith
PairTypeByEquality(filetype) ==
    IF filetype = "NIFTI_PAIR" THEN "NIFTI_FTYPE_NIFTI1_2"
    ELSE "NIFTI_FTYPE_ANALYZE"

\* the nifti_type save() gives a header/image file pair
PairType(filetype) ==
    IF StartsWithNIFTI(filetype) THEN "NIFTI_FTYPE_NIFTI1_2"
    ELSE "NIFTI_FTYPE_ANALYZE"

\* save(): the file names and the nifti_type it sets for a file name given
SetNames(img, dsk, filename, filetype) ==
    IF filetype \notin filetypes
    \* the raise statement names nifti_filetype_ids, which is not defined
    THEN Outcome(img, dsk, "NameError")
    ELSE LET sp == splitFilename(filename) IN
    IF sp.err # "none" THEN Outcome(img, dsk, sp.err)
    ELSE LET base == sp.base
             ext == IF sp.ext = EmptyName THEN <<"nii">> ELSE sp.ext
    IN  IF ext = <<"nii", "gz">> \/ ext = <<"nii">>
        THEN Outcome([img EXCEPT !.fname = base \o ext, !.iname = base \o ext,
                                 !.nifti_type = "NIFTI_FTYPE_NIFTI1_1"],
                     dsk, "none")
        ELSE IF ext = <<"hdr">>
        THEN Outcome([img EXCEPT !.fname = base \o <<"hdr">>,
                                 !.iname = base \o <<"img">>,
                                 !.nifti_type = PairType(filetype)],
                     dsk, "none")
        ELSE IF ext = <<"hdr", "gz">>
        THEN Outcome([img EXCEPT !.fname = base \o <<"hdr", "gz">>,
                                 !.iname = base \o <<"img", "gz">>,
                                 !.nifti_type = PairType(filetype)],
                     dsk, "none")
        ELSE Outcome(img, dsk, "RuntimeError")

\* clibs.nifti_image_write_hdr_img: the files of the image exist afterwards
WriteFiles(img, dsk) ==
    Outcome(img, (img.fname :> img.data) @@ (img.iname :> img.data) @@ dsk,
            "none")

\* save(), after the data is in memory: the header update, the new file
\* names and the write
SaveLoaded(img, dsk, filename, filetype) ==
    LET c == updateCalMinMax(img, dsk) IN
    IF c.err # "none" THEN c
    ELSE IF Falsy(c.nimg.fname) \/ ~Falsy(filename)
    THEN IF Falsy(filename) THEN Outcome(c.nimg, dsk, "ValueError")
         ELSE LET n == SetNames(c.nimg, dsk, filename, filetype) IN
              IF n.err # "none" THEN n ELSE WriteFiles(n.nimg, dsk)
    ELSE WriteFiles(c.nimg, dsk)

\* a save() that sets the new file names before it loads the data
SaveNamesFirst(img, dsk, filename, filetype) ==
    IF img = NoImage THEN Outcome(img, dsk, "RuntimeError")
    ELSE LET n == IF Falsy(filename) THEN Outcome(img, dsk, "none")
                  ELSE SetNames(img, dsk, filename, filetype)
             l == IF ~haveImageData(n.nimg) THEN Load(n.nimg, dsk)
                  ELSE Outcome(n.nimg, dsk, "none")
    IN  IF l.err # "none" THEN Outcome(img, dsk, l.err)
        ELSE SaveLoaded(l.nimg, dsk, filename, filetype)

\* save(filename, filetype)
Save(img, dsk, filename, filetype) ==
    IF img = NoImage THEN Outcome(img, dsk, "RuntimeError")
    ELSE LET l == IF ~haveImageData(img) THEN Load(img, dsk)
                  ELSE Outcome(img, dsk, "none")
    IN  IF l.err # "none" THEN l
        ELSE SaveLoaded(l.nimg, dsk, filename, filetype)

\* an updateHeader() that removes 'datatype' only
StripDatatypeOnly(hdrdict) ==
    [k \in DOMAIN hdrdict \ {"datatype"} |-> hdrdict[k]]

\* updateHeader(): the keys it removes from the dictionary
StripKeys(hdrdict) ==
    [k \in DOMAIN hdrdict \ {"datatype", "dim"} |-> hdrdict[k]]

\* an updateHeader() that does not hand the data pointer of the old image
\* struct to the new one
UpdateHeaderFreesData(img, dsk, hdrdict) ==
    LET r == updateNiftiHeaderFromDict(nifti_convert_nim2nhdr(img),
                                       StripKeys(hdrdict))
    IN  IF r.err # "none" THEN Outcome(img, dsk, r.err)
        ELSE LET new_nimg == nifti_convert_nhdr2nim(r.h, img.fname) IN
             IF new_nimg = NoImage THEN Outcome(img, dsk, "RuntimeError")
             ELSE Outcome(new_nimg, dsk, "none")

\* updateHeader(hdrdict)
UpdateHeader(img, dsk, hdrdict) ==
    LET r == updateNiftiHeaderFromDict(nifti_convert_nim2nhdr(img),
                                       StripKeys(hdrdict))
    IN  IF r.err # "none" THEN Outcome(img, dsk, r.err)
        ELSE LET new_nimg == nifti_convert_nhdr2nim(r.h, img.fname) IN
             IF new_nimg = NoImage THEN Outcome(img, dsk, "RuntimeError")
             ELSE Outcome([new_nimg EXCEPT !.data = img.data], dsk, "none")

\* setSlope, setIntercept
SetSlope(img, dsk, value) ==
    Outcome([img EXCEPT !.h.scl_slope = value], dsk, "none")
SetIntercept(img, dsk, value) ==
    Outcome([img EXCEPT !.h.scl_inter = value], dsk, "none")

\* setDescription
SetDescription(img, dsk, value) ==
    IF Len(value) > 79 THEN Outcome(img, dsk, "ValueError")
    ELSE Outcome([img EXCEPT !.h.descrip = value], dsk, "none")

\* nim.data[i] = value, through the array that wraps the image data
SetVoxel(img, dsk, i, value) ==
    LET a == AsArray(img, dsk) IN
    IF a.err # "none" THEN a
    ELSE Outcome([a.nimg EXCEPT !.data[i] = value], dsk, "none")

(***************************************************************************)
(* The geometry of the image struct. The quaternion, the offsets and the   *)
(* voxel sizes dx, dy, dz of the struct are the fields quatern_b..d,       *)
(* qoffset_x..z and pixdim[1..3] of its header h; pixdim[0] of the header  *)
(* is the sign of qfac and srow_x..z are the first three rows of the sform.*)
(***************************************************************************)
\* updateQFormFromQuaternion: the call hands quatern_b to the library for
\* each of the three components of the quaternion
updateQFormFromQuaternion(img) ==
    LET q == nifti_quatern_to_mat44(
                 img.h.quatern_b, img.h.quatern_b, img.h.quatern_b,
                 img.h.qoffset_x, img.h.qoffset_y, img.h.qoffset_z,
                 img.h.pixdim[2], img.h.pixdim[3], img.h.pixdim[4], img.qfac)
    IN  [img EXCEPT !.qto_xyz = q, !.qto_ijk = nifti_mat44_inverse(q)]

\* setVoxDims(value)
SetVoxDims(img, dsk, value) ==
    IF Len(value) # 3 THEN Outcome(img, dsk, "ValueError")
    ELSE Outcome(updateQFormFromQuaternion(
                     [img EXCEPT !.h.pixdim[2] = value[1],
                                 !.h.pixdim[3] = value[2],
                                 !.h.pixdim[4] = value[3]]),
                 dsk, "none")

\* setQuaternion(value)
SetQuaternion(img, dsk, value) ==
    IF Len(value) # 3 THEN Outcome(img, dsk, "ValueError")
    ELSE Outcome(updateQFormFromQuaternion(
                     [img EXCEPT !.h.quatern_b = value[1],
                                 !.h.quatern_c = value[2],
                                 !.h.quatern_d = value[3]]),
                 dsk, "none")

\* setQOffset(value)
SetQOffset(img, dsk, value) ==
    IF Len(value) # 3 THEN Outcome(img, dsk, "ValueError")
    ELSE Outcome(updateQFormFromQuaternion(
                     [img EXCEPT !.h.qoffset_x = value[1],
                                 !.h.qoffset_y = value[2],
                                 !.h.qoffset_z = value[3]]),
                 dsk, "none")

\* setQFac(value): the value is stored as it is given
SetQFac(img, dsk, value) ==
    Outcome(updateQFormFromQuaternion(
                [img EXCEPT !.qfac = value,
                            !.h.pixdim[1] = IF value >= 0 THEN 1 ELSE -1]),
            dsk, "none")

\* setQForm(m). The tuple the library returns is assigned to a target list
\* that names quatern_b three times: quatern_b ends as the third component
\* of the quaternion, and quatern_c and quatern_d are left as they are.
SetQForm(img, dsk, m) ==
    IF ~IsShape44(m) THEN Outcome(img, dsk, "ValueError")
    ELSE LET q == nifti_mat44_to_quatern(m) IN
         Outcome([img EXCEPT !.qto_xyz = m,
                             !.qto_ijk = nifti_mat44_inverse(m),
                             !.h.quatern_b = q[3],
                             !.h.qoffset_x = q[4],
                             !.h.qoffset_y = q[5],
                             !.h.qoffset_z = q[6],
                             !.h.pixdim[2] = q[7],
                             !.h.pixdim[3] = q[8],
                             !.h.pixdim[4] = q[9],
                             !.qfac = q[10],
                             !.h.pixdim[1] = IF q[10] >= 0 THEN 1 ELSE -1],
                 dsk, "none")

\* a setSForm() that leaves the inverse as it was
SetSFormKeepInverse(img, dsk, m) ==
    IF ~IsShape44(m) THEN Outcome(img, dsk, "ValueError")
    ELSE Outcome([img EXCEPT !.sto_xyz = m,
                             !.h.srow_x = m[1], !.h.srow_y = m[2],
                             !.h.srow_z = m[3]],
                 dsk, "none")

\* setSForm(m): all four rows of m are stored in the struct
SetSForm(img, dsk, m) ==
    IF ~IsShape44(m) THEN Outcome(img, dsk, "ValueError")
    ELSE Outcome([img EXCEPT !.sto_xyz = m,
                             !.sto_ijk = nifti_mat44_inverse(m),
                             !.h.srow_x = m[1], !.h.srow_y = m[2],
                             !.h.srow_z = m[3]],
                 dsk, "none")

\* getSForm(), getHeader()
getSForm(img) == img.sto_xyz
getHeader(img) == nhdr2dict(nifti_convert_nim2nhdr(img))

(***************************************************************************)
(* Construction.                                                           *)
(***************************************************************************)
RECURSIVE Product(_)
Product(q) == IF q = <<>> THEN 1 ELSE q[1] * Product(Tail(q))

\* __newFromArray: the header dictionary with dim set from the shape of the
\* array, or the exception of an index past the end of the 'dim' list
SetDimFromShape(hdic, shape) ==
    LET n == Len(shape)
        dim == hdic["dim"]
    IN  IF Len(dim) = 0 \/ (n > 0 /\ n >= Len(dim))
        THEN [err |-> "IndexError", hdic |-> hdic]
        ELSE [err |-> "none",
              hdic |-> [hdic EXCEPT !["dim"] =
                  [j \in 1..Len(dim) |->
                      IF j = 1 THEN n
                      ELSE IF j - 1 <= n THEN shape[n - (j - 1) + 1]
                      ELSE dim[j]]]]

\* __newFromArray(data, hdr): the header struct it builds, the image struct
\* of the new object (NoImage when the constructor raises) and the exception
NewFromArray(data, hdr) ==
    IF Len(data.shape) > 7
    THEN [nhdr |-> TemplateHeader, nimg |-> NoImage, err |-> "ValueError"]
    ELSE LET hdic0 == hdr @@ nhdr2dict(TemplateHeader)
             dt == numpydtype2niftidtype(data)
    IN  IF dt.err # "none"
        THEN [nhdr |-> TemplateHeader, nimg |-> NoImage, err |-> dt.err]
    ELSE LET sd == SetDimFromShape([hdic0 EXCEPT !["datatype"] = dt.ret],
                                   data.shape)
    IN  IF sd.err # "none"
        THEN [nhdr |-> TemplateHeader, nimg |-> NoImage, err |-> sd.err]
    ELSE LET hdic == [sd.hdic EXCEPT !["magic"] = "n+1"]
             r == updateNiftiHeaderFromDict(TemplateHeader, hdic)
    IN  IF r.err # "none" THEN [nhdr |-> r.h, nimg |-> NoImage, err |-> r.err]
    ELSE LET im == nifti_convert_nhdr2nim(r.h, <<"pynifti_none">>) IN
        IF im = NoImage THEN [nhdr |-> r.h, nimg |-> NoImage, err |-> "RuntimeError"]
        ELSE [nhdr |-> r.h,
              \* allocateImageMemory gives zeroed memory, and asarray()
              \* returns a copy, so  self.asarray()[:] = data[:]  leaves it
              nimg |-> [im EXCEPT !.fname = EmptyName, !.iname = EmptyName,
                                  !.data = Zeros(Product(data.shape))],
              err |-> "none"]

\* __newFromFile(filename, load): clibs.nifti_image_read
NewFromFile(filename, hdr, dsk, load) ==
    LET im == nifti_convert_nhdr2nim(hdr, filename) IN
    IF load THEN Load(im, dsk).nimg ELSE im

(***************************************************************************)
(* Construction of a NiftiFile object from an array.                       *)
(***************************************************************************)
\* arrays by shape and element type (the constructor drops their elements)
Arrays ==
    [ shape : { <<>>, <<3, 2>>, <<1, 1, 1, 1, 1, 3, 2>>, Ones(8) },
      dtype : { "int16", "uint8", "bool" } ]

InitArray ==
    /\ nhdr = TemplateHeader
    /\ nimg = NoImage
    /\ disk = EmptyDict
    /\ born = None
    /\ calls = 0
    /\ last = NoCall
    /\ prev = [nhdr |-> nhdr, nimg |-> NoImage, disk |-> EmptyDict]

\* NiftiFile(source, header = hdr)  with an array as the source
DoNewFromArray ==
    /\ last.op = "none"
    /\ \E data \in Arrays, hdr \in Patches :
        LET r == NewFromArray(data, hdr) IN
        /\ nhdr' = r.nhdr
        /\ nimg' = r.nimg
        /\ born' = IF r.nimg = NoImage THEN None
                   ELSE [dim |-> r.nimg.h.dim, datatype |-> r.nimg.h.datatype]
        /\ last' = [op |-> "__newFromArray", arg |-> data, patch |-> hdr,
                    err |-> r.err, ret |-> None]
    /\ prev' = Snapshot
    /\ UNCHANGED <<disk, calls>>

NextArray == DoNewFromArray

SpecArray == InitArray /\ [][NextArray]_vars

(***************************************************************************)
(* The life of a NiftiFile object after its construction.                  *)
(***************************************************************************)
\* the image files that exist when the object is constructed
InitDisk == (<<"in", "nii">> :> <<3, -2>>) @@ (<<"brain", "nii">> :> <<7, 8>>)

\* the objects as the constructor leaves them: from an array, and from the
\* file in.nii with and without its data
NewObjects ==
    { NewFromArray([shape |-> <<1, 2>>, dtype |-> "int16"], EmptyDict).nimg }
    \cup { NewFromFile(<<"in", "nii">>, FileHeader, InitDisk, load)
           : load \in BOOLEAN }

Init ==
    /\ nhdr = TemplateHeader
    /\ nimg \in NewObjects
    /\ disk = InitDisk
    /\ born = [dim |-> nimg.h.dim, datatype |-> nimg.h.datatype]
    /\ calls = 0
    /\ last = NoCall
    /\ prev = [nhdr |-> nhdr, nimg |-> nimg, disk |-> disk]

\* the file names and filetypes save() is called with
Omitted == "omitted"
SaveNames ==
    { NoName, EmptyName, <<"brain">>, <<"brain", "nii">>, <<"brain", "nii", "gz">>,
      <<"brain", "hdr">>, <<"brain", "hdr", "gz">>, <<"gz">>, <<"nii">>,
      <<"brain", "gz">> }
SaveTypes == { Omitted, "ANALYZE", "NIFTI_PAIR", "TIFF" }

\* the dictionaries updateHeader() is called with
HeaderPatches ==
    { d \in DictsOfSize(1) :
        DOMAIN d \subseteq {"dim", "datatype", "descrip", "magic", "sform"} }
    \cup { ("dim" :> v) @@ ("datatype" :> "NIFTI_TYPE_INT16") @@ ("cal_min" :> 5)
           : v \in PatchValues("dim") }

\* a call with outcome o
Call(op, arg, patch, o) ==
    /\ calls < MaxSteps
    /\ calls' = calls + 1
    /\ nimg' = o.nimg
    /\ disk' = o.disk
    /\ last' = [op |-> op, arg |-> arg, patch |-> patch, err |-> o.err,
                ret |-> None]
    /\ prev' = Snapshot
    /\ UNCHANGED <<nhdr, born>>

DoSave ==
    \E filename \in SaveNames, ft \in SaveTypes :
        Call("save", [filename |-> filename, filetype |-> ft], EmptyDict,
             Save(nimg, disk, filename, IF ft = Omitted THEN "NIFTI" ELSE ft))

DoLoad == Call("load", None, EmptyDict, Load(nimg, disk))

DoUnload == Call("unload", None, EmptyDict, Unload(nimg, disk))

DoAsArray == Call("asarray", None, EmptyDict, AsArray(nimg, disk))

DoSetVoxel ==
    \E i \in 1..2, value \in {-5, 9} :
        Call("setvoxel", <<i, value>>, EmptyDict,
             SetVoxel(nimg, disk, i, value))

DoUpdateHeader ==
    \E hdrdict \in HeaderPatches :
        Call("updateHeader", None, hdrdict, UpdateHeader(nimg, disk, hdrdict))

DoSetSlope == Call("setSlope", 2, EmptyDict, SetSlope(nimg, disk, 2))

DoSetIntercept == Call("setIntercept", 3, EmptyDict, SetIntercept(nimg, disk, 3))

DoSetDescription ==
    \E value \in {"scan", X80} :
        Call("setDescription", value, EmptyDict,
             SetDescription(nimg, disk, value))

Next ==
    \/ DoSave
    \/ DoLoad
    \/ DoUnload
    \/ DoAsArray
    \/ DoSetVoxel
    \/ DoUpdateHeader
    \/ DoSetSlope
    \/ DoSetIntercept
    \/ DoSetDescription

Spec == Init /\ [][Next]_vars

(***************************************************************************)
(* The geometry calls on a NiftiFile object opened from a file whose       *)
(* header has both the qform and the sform set.                            *)
(***************************************************************************)
GeomHeaders ==
    { [FileHeader EXCEPT !.qform_code = 1],
      [FileHeader EXCEPT !.qform_code = 1, !.pixdim[1] = -1,
                         !.quatern_c = 1, !.qoffset_x = 7] }

InitGeom ==
    /\ nhdr = TemplateHeader
    /\ nimg \in { NewFromFile(<<"in", "nii">>, h, InitDisk, TRUE)
                   : h \in GeomHeaders }
    /\ disk = InitDisk
    /\ born = [dim |-> nimg.h.dim, datatype |-> nimg.h.datatype]
    /\ calls = 0
    /\ last = NoCall
    /\ prev = [nhdr |-> nhdr, nimg |-> nimg, disk |-> disk]

\* 4x4 matrices for setQForm: no rotation, a half turn about the x axis, and
\* a left-handed one
QForms ==
    { << <<2, 0, 0, 10>>, <<0, 3, 0, 20>>, <<0, 0, 4, 30>>, <<0, 0, 0, 1>> >>,
      << <<2, 0, 0, 10>>, <<0, -3, 0, 20>>, <<0, 0, -4, 30>>, <<0, 0, 0, 1>> >>,
      << <<-2, 0, 0, 10>>, <<0, 3, 0, 20>>, <<0, 0, 4, 30>>, <<0, 0, 0, 1>> >> }

\* the dictionaries updateHeader() is called with
GeomPatches ==
    { "pixdim" :> <<-1, 2, 2, 2, 1, 1, 1, 1>>,
      "pixdim" :> <<0, 5, 5, 5, 1, 1, 1, 1>>,
      "sform" :> Matrix44,
      "sform" :> Matrix33,
      "quatern" :> <<1, 2, 3>> }

DoSetVoxDims ==
    \E value \in { <<2, 3, 4>>, <<2, 3>> } :
        Call("setVoxDims", value, EmptyDict, SetVoxDims(nimg, disk, value))

DoSetQuaternion ==
    \E value \in { <<1, 2, 3>>, <<0, 1, 0>>, <<1, 2>> } :
        Call("setQuaternion", value, EmptyDict,
             SetQuaternion(nimg, disk, value))

DoSetQOffset ==
    \E value \in { <<4, 5, 6>>, <<4, 5, 6, 7>> } :
        Call("setQOffset", value, EmptyDict, SetQOffset(nimg, disk, value))

DoSetQFac ==
    \E value \in { -1, 0, 1, 5 } :
        Call("setQFac", value, EmptyDict, SetQFac(nimg, disk, value))

DoSetQForm ==
    \E m \in QForms \cup {Matrix33} :
        Call("setQForm", m, EmptyDict, SetQForm(nimg, disk, m))

DoSetSForm ==
    \E m \in {Matrix44, Matrix33} :
        Call("setSForm", m, EmptyDict, SetSForm(nimg, disk, m))

DoPatchGeometry ==
    \E hdrdict \in GeomPatches :
        Call("updateHeader", None, hdrdict, UpdateHeader(nimg, disk, hdrdict))

NextGeom ==
    \/ DoSetVoxDims
    \/ DoSetQuaternion
    \/ DoSetQOffset
    \/ DoSetQFac
    \/ DoSetQForm
    \/ DoSetSForm
    \/ DoPatchGeometry

SpecGeom == InitGeom /\ [][NextGeom]_vars

(***************************************************************************)
(* Properties of save().                                                   *)
(***************************************************************************)
\* the file name is one of a header file: its last component is 'hdr', or
\* it is 'gz' after 'hdr'
HdrName(f) ==
    /\ f # NoName
    /\ \/ f[Len(f)] = "hdr"
       \/ Len(f) >= 2 /\ f[Len(f)] = "gz" /\ f[Len(f) - 1] = "hdr"

NiftiNamed == {"NIFTI", "NIFTI_PAIR", "NIFTI_GZ", "NIFTI_PAIR_GZ"}

SavedToHdrName ==
    last.op = "save" /\ last.err = "none" /\ HdrName(last.arg.filename)

\* C4 as claimed: a save to a name with effective extension 'hdr' makes the
\* container ANALYZE unless an explicit filetype starting with "NIFTI" is
\* given; with no filetype argument it is the ANALYZE pair.
C4_AnalyzeUnlessExplicitNifti ==
    SavedToHdrName
        => nimg.nifti_type = IF last.arg.filetype \in NiftiNamed
                             THEN "NIFTI_FTYPE_NIFTI1_2"
                             ELSE "NIFTI_FTYPE_ANALYZE"

\* C4 as amended: a save to a name with effective extension 'hdr' makes the
\* container ANALYZE unless the filetype in effect starts with "NIFTI", and
\* the filetype in effect when none is given is 'NIFTI': save("brain.hdr")
\* selects the NIfTI pair, save("brain.hdr", "ANALYZE") the ANALYZE pair.
C4_AnalyzeUnlessFiletypeInEffectNifti ==
    SavedToHdrName
        => nimg.nifti_type = IF last.arg.filetype \in NiftiNamed \cup {Omitted}
                             THEN "NIFTI_FTYPE_NIFTI1_2"
                             ELSE "NIFTI_FTYPE_ANALYZE"

C4_Witness ==
    /\ SavedToHdrName
    /\ last.arg.filetype = Omitted
    /\ nimg.nifti_type = "NIFTI_FTYPE_NIFTI1_2"
    /\ nimg.fname = <<"brain", "hdr">>
    /\ nimg.iname = <<"brain", "img">>

\* the header and image path the resolution table gives a requested name
TablePaths(f) ==
    LET n == Len(f)
        compressed == f[n] = "gz"
        ext == IF ~compressed THEN f[n] ELSE IF n >= 2 THEN f[n - 1] ELSE ""
        stem == SubSeq(f, 1, IF compressed THEN n - 2 ELSE n - 1)
        base == IF stem = <<>> THEN <<"">> ELSE stem
        gz == IF compressed THEN <<"gz">> ELSE <<>>
    IN  IF ext = "nii"
        THEN [header |-> base \o <<"nii">> \o gz, image |-> base \o <<"nii">> \o gz]
        ELSE IF ext = "hdr"
        THEN [header |-> base \o <<"hdr">> \o gz, image |-> base \o <<"img">> \o gz]
        ELSE [header |-> f \o <<"nii">>, image |-> f \o <<"nii">>]

\* the data is in memory or there is a file to load it from
CouldLoad(img, dsk) == img.data # NoData \/ img.iname \in DOMAIN dsk

\* C5: the resolution of a requested file name is total and follows the
\* table: every non-empty name, also one with no dot such as "brain", "gz"
\* or "nii", resolves to the header and image path of the table, and no
\* undeclared error is raised.
C5_ResolutionTotal ==
    (/\ last.op = "save"
     /\ ~Falsy(last.arg.filename)
     /\ last.arg.filetype \in filetypes \cup {Omitted}
     /\ CouldLoad(prev.nimg, prev.disk))
        => /\ last.err = "none"
           /\ nimg.fname = TablePaths(last.arg.filename).header
           /\ nimg.iname = TablePaths(last.arg.filename).image

\* C6: save() with no target name on a session that has no file name fails
\* with the missing-filename error and writes nothing; on a session that has
\* a file name it does not fail for this reason and keeps the header path,
\* the image path and the container kind.
C6_SaveWithoutName ==
    (last.op = "save" /\ last.arg.filename = NoName)
        => IF Falsy(prev.nimg.fname)
           THEN last.err = "ValueError" /\ disk = prev.disk
           ELSE /\ last.err # "ValueError"
                /\ nimg.fname = prev.nimg.fname
                /\ nimg.iname = prev.nimg.iname
                /\ nimg.nifti_type = prev.nimg.nifti_type

\* C7: a save() that fails for want of a file name or for an unknown
\* filetype (the two raise statements of save(): the first raises ValueError,
\* the second ends in NameError) leaves the session as it was: Unbacked or
\* Loaded, cal_min, cal_max, header path, image path and container kind.
C7_FailedSaveChangesNothing ==
    (last.op = "save" /\ last.err \in {"ValueError", "NameError"})
        => /\ (nimg.data = NoData) <=> (prev.nimg.data = NoData)
           /\ nimg.h.cal_min = prev.nimg.h.cal_min
           /\ nimg.h.cal_max = prev.nimg.h.cal_max
           /\ nimg.fname = prev.nimg.fname
           /\ nimg.iname = prev.nimg.iname
           /\ nimg.nifti_type = prev.nimg.nifti_type

IsMaxOf(m, q) == (\E i \in 1..Len(q) : q[i] = m) /\ (\A i \in 1..Len(q) : q[i] <= m)
IsMinOf(m, q) == (\E i \in 1..Len(q) : q[i] = m) /\ (\A i \in 1..Len(q) : q[i] >= m)

\* C8: after every successful save() the session is Loaded and cal_min and
\* cal_max are the minimum and maximum of the data attached; data that was
\* not in memory is the data of the image file the session named before the
\* call, and data that was in memory is kept.
C8_SaveLoadsThenUpdatesCal ==
    (last.op = "save" /\ last.err = "none")
        => /\ nimg.data # NoData
           /\ IsMaxOf(nimg.h.cal_max, nimg.data)
           /\ IsMinOf(nimg.h.cal_min, nimg.data)
           /\ nimg.data = IF prev.nimg.data = NoData
                          THEN prev.disk[prev.nimg.iname]
                          ELSE prev.nimg.data

C8_Witness ==
    /\ last.op = "save" /\ last.err = "none"
    /\ prev.nimg.data = NoData
    /\ nimg.iname # prev.nimg.iname
    /\ nimg.iname \in DOMAIN prev.disk
    /\ prev.disk[nimg.iname] # prev.disk[prev.nimg.iname]
    /\ nimg.h.cal_max # prev.nimg.h.cal_max
    /\ nimg.h.cal_min # prev.nimg.h.cal_min

(***************************************************************************)
(* Properties of updateHeader() and of the construction from an array.     *)
(***************************************************************************)
\* C9: after any sequence of updateHeader, load, unload, save and setter
\* calls, with dictionaries that hold 'dim' and 'datatype' too, dim and
\* datatype of the session's header are as they were at its construction.
C9_DimAndDatatypeImmutable ==
    nimg.h.dim = born.dim /\ nimg.h.datatype = born.datatype

C9_Witness ==
    /\ last.op = "updateHeader" /\ last.err = "none"
    /\ calls >= 2
    /\ {"dim", "datatype", "cal_min"} \subseteq DOMAIN last.patch
    /\ Len(last.patch["dim"]) = 8
    /\ last.patch["dim"] # born.dim
    /\ last.patch["datatype"] # born.datatype
    /\ nimg.h.cal_min = last.patch["cal_min"]
    /\ nimg.h.cal_min # prev.nimg.h.cal_min

\* C10: the header of an object constructed from an array of n <= 7
\* dimensions has the datatype of the element type, magic "n+1", dim[0] = n,
\* dim[n-i] = shape[i] and dim[n+1..7] = 1, whatever the dictionary handed
\* in; an array of more than 7 dimensions is rejected.
C10_ArrayDeterminesHeader ==
    last.op = "__newFromArray"
        => LET shape == last.arg.shape
               n == Len(shape)
           IN  /\ n > 7 => last.err # "none"
               /\ last.err = "none"
                    => /\ nhdr.datatype = numpy2nifti_dtype_map[last.arg.dtype]
                       /\ nhdr.magic = "n+1"
                       /\ nhdr.dim[1] = n
                       /\ \A i \in 0..(n - 1) : nhdr.dim[(n - i) + 1] = shape[i + 1]
                       /\ \A j \in (n + 1)..7 : nhdr.dim[j + 1] = 1

(***************************************************************************)
(* Properties of the geometry calls.                                       *)
(***************************************************************************)
\* the quaternion representation stored in an image struct
StoredQuaternion(img) ==
    << img.h.quatern_b, img.h.quatern_c, img.h.quatern_d,
       img.h.qoffset_x, img.h.qoffset_y, img.h.qoffset_z,
       img.h.pixdim[2], img.h.pixdim[3], img.h.pixdim[4], img.qfac >>

QuaternionSetters == {"setVoxDims", "setQuaternion", "setQOffset", "setQFac"}

\* C11: after a setVoxDims, setQuaternion, setQOffset or setQFac call the
\* qform matrix is nifti_quatern_to_mat44 of the stored quatern_b, quatern_c
\* and quatern_d (three components), offsets, voxel sizes and qfac, and the
\* inverse qform is the inverse of that qform.
C11_QFormFromStoredQuaternion ==
    (last.op \in QuaternionSetters /\ last.err = "none")
        => LET q == StoredQuaternion(nimg) IN
           /\ nimg.qto_xyz = nifti_quatern_to_mat44(q[1], q[2], q[3], q[4],
                                 q[5], q[6], q[7], q[8], q[9], q[10])
           /\ nimg.qto_ijk = nifti_mat44_inverse(nimg.qto_xyz)

\* C12: setQForm(m) with a 4x4 matrix makes the stored quaternion
\* representation the 10-tuple nifti_mat44_to_quatern(m), component by
\* component, the qform m and the inverse qform the inverse of m; a matrix
\* that is not 4x4 is rejected and the object is left as it was.
C12_SetQFormRecalculates ==
    last.op = "setQForm"
        => IF IsShape44(last.arg)
           THEN /\ last.err = "none"
                /\ StoredQuaternion(nimg) = nifti_mat44_to_quatern(last.arg)
                /\ nimg.qto_xyz = last.arg
                /\ nimg.qto_ijk = nifti_mat44_inverse(last.arg)
           ELSE last.err # "none" /\ nimg = prev.nimg

\* C13: sform and qform are not synced. setSForm changes the sform and its
\* inverse only, and leaves the qform, its inverse, the quaternion, the
\* offsets, the voxel sizes and qfac as they were; setQForm, setQuaternion,
\* setQOffset, setQFac and setVoxDims leave the sform and its inverse as they
\* were; after setSForm(m) the sform is m and the inverse sform is the
\* inverse of the stored sform.
C13_SformQformNotSynced ==
    /\ (last.op = "setSForm" /\ last.err = "none")
          => /\ nimg.qto_xyz = prev.nimg.qto_xyz
             /\ nimg.qto_ijk = prev.nimg.qto_ijk
             /\ StoredQuaternion(nimg) = StoredQuaternion(prev.nimg)
             /\ nimg.sto_xyz = last.arg
             /\ nimg.sto_ijk = nifti_mat44_inverse(nimg.sto_xyz)
    /\ last.op \in QuaternionSetters \cup {"setQForm"}
          => /\ nimg.sto_xyz = prev.nimg.sto_xyz
             /\ nimg.sto_ijk = prev.nimg.sto_ijk
             /\ nimg.h.srow_x = prev.nimg.h.srow_x
             /\ nimg.h.srow_y = prev.nimg.h.srow_y
             /\ nimg.h.srow_z = prev.nimg.h.srow_z

\* a setSForm that changed the sform of an object whose qform had been set
\* by the call before it
C13_Witness ==
    /\ last.op = "setSForm" /\ last.err = "none"
    /\ calls >= 2
    /\ nimg.sto_xyz # prev.nimg.sto_xyz
    /\ nimg.sto_ijk # prev.nimg.sto_ijk
    /\ nimg.qto_xyz \in QForms

\* C16: in every state of the object qfac is -1 or +1, also after setQFac(v)
\* with any number v (0 included), after setQForm and after a header
\* dictionary that sets pixdim[0].
C16_QFacIsSign ==
    nimg.qfac \in {-1, 1}

\* C17 as claimed: the sform matrix getSForm() returns and the 'sform' entry
\* of the header dictionary have (0,0,0,1) as their last row in every state
\* of the object.
C17_SformLastRow ==
    /\ getSForm(nimg)[4] = <<0, 0, 0, 1>>
    /\ getHeader(nimg)["sform"][4] = <<0, 0, 0, 1>>

\* C17 as amended: the 'sform' entry of the header dictionary has (0,0,0,1)
\* as its last row in every state of the object; right after setSForm(m),
\* getSForm() returns m with the last row m was given with.
C17_DictionarySformLastRow ==
    /\ getHeader(nimg)["sform"][4] = <<0, 0, 0, 1>>
    /\ (last.op = "setSForm" /\ last.err = "none")
          => getSForm(nimg) = last.arg

\* setSForm(m) with a last row that is not (0,0,0,1), the rows above it shown
\* by the header dictionary
C17_Witness ==
    /\ last.op = "setSForm" /\ last.err = "none"
    /\ last.arg[4] # <<0, 0, 0, 1>>
    /\ getHeader(nimg)["sform"][1] = last.arg[1]
    /\ getHeader(nimg)["sform"][2] = last.arg[2]

(***************************************************************************)
(* Properties of the validation and of the header invariants.              *)
(***************************************************************************)
\* a value of one of the keys of C14 that breaks the rule of its key
BreaksStringOrShapeRule(k, v) ==
    /\ k \in {"data_type", "db_name", "descrip", "aux_file", "intent_name",
              "magic", "quatern", "qoffset", "sform"}
    /\ ~ValidValue(k, v)

\* the string fields of a header are within their limits and magic is one of
\* the two literals
StringsWithinLimits(h) ==
    /\ Len(h.data_type) <= 9
    /\ Len(h.db_name) <= 79
    /\ Len(h.descrip) <= 79
    /\ Len(h.aux_file) <= 23
    /\ Len(h.intent_name) <= 15
    /\ h.magic \in {"ni1", "n+1"}

\* C14: updateNiftiHeaderFromDict rejects with a validation error (ValueError)
\* every dictionary in which 'data_type', 'db_name', 'descrip', 'aux_file',
\* 'intent_name', 'magic', 'quatern', 'qoffset' or 'sform' breaks its rule;
\* so no string field of the header is ever over its limit and magic is one
\* of the two literals.
C14_InvalidValuesRejected ==
    /\ (last.op = "updateNiftiHeaderFromDict"
          /\ \E k \in DOMAIN last.patch : BreaksStringOrShapeRule(k, last.patch[k]))
          => last.err = "ValueError"
    /\ StringsWithinLimits(nhdr)

\* C15: updateNiftiHeaderFromDict takes a 'dim' or 'pixdim' of exactly 8
\* elements only: a dictionary whose 'dim' or 'pixdim' has fewer or more is
\* rejected with a validation error (ValueError) and all 8 slots of dim and
\* pixdim of the header are as before the call.
C15_DimOfEightElementsOnly ==
    (last.op = "updateNiftiHeaderFromDict"
       /\ \E k \in DOMAIN last.patch \cap {"dim", "pixdim"} :
             Len(last.patch[k]) # 8)
       => /\ last.err = "ValueError"
          /\ nhdr.dim = prev.nhdr.dim
          /\ nhdr.pixdim = prev.nhdr.pixdim

\* the bits per voxel of the NIfTI datatypes
BitsPerVoxel ==
    [ NIFTI_TYPE_UINT8 |-> 8, NIFTI_TYPE_INT8 |-> 8,
      NIFTI_TYPE_UINT16 |-> 16, NIFTI_TYPE_INT16 |-> 16,
      NIFTI_TYPE_UINT32 |-> 32, NIFTI_TYPE_INT32 |-> 32,
      NIFTI_TYPE_UINT64 |-> 64, NIFTI_TYPE_INT64 |-> 64,
      NIFTI_TYPE_FLOAT32 |-> 32, NIFTI_TYPE_FLOAT64 |-> 64,
      NIFTI_TYPE_COMPLEX128 |-> 128 ]

\* C18: in every header updateNiftiHeaderFromDict leaves behind, bitpix is the
\* number of bits per voxel of the header's datatype, also when the
\* dictionary has 'bitpix' without 'datatype' or 'datatype' without 'bitpix'.
C18_BitpixMatchesDatatype ==
    nhdr.bitpix = BitsPerVoxel[nhdr.datatype]

(***************************************************************************)
(* Properties of the life cycle of the object.                             *)
(***************************************************************************)
\* what load, unload and asarray must leave alone: the header, the file
\* names and the geometry matrices
HeaderNamesAndGeometry(img) ==
    << img.h, img.fname, img.iname, img.qfac,
       img.qto_xyz, img.qto_ijk, img.sto_xyz, img.sto_ijk >>

\* C19: load() on an object whose data is in memory leaves it there, with
\* the same buffer and header; unload() leaves the object without data;
\* asarray() on an object without data loads it; and none of load, unload
\* and asarray changes a header field, a file name or a geometry matrix.
C19_LifeCycle ==
    /\ (last.op = "load" /\ haveImageData(prev.nimg))
          => last.err = "none" /\ nimg = prev.nimg
    /\ last.op = "unload"
          => last.err = "none" /\ ~haveImageData(nimg)
    /\ (last.op = "asarray" /\ last.err = "none") => haveImageData(nimg)
    /\ last.op \in {"load", "unload", "asarray"}
          => HeaderNamesAndGeometry(nimg) = HeaderNamesAndGeometry(prev.nimg)

\* C20: updateHeader keeps header and buffer together. After a successful
\* call the object has an image struct with the data buffer, the state and
\* the file name it had before; a failed call leaves the image struct, and
\* so the header, the buffer and the state, as before the call.
C20_UpdateHeaderKeepsBuffer ==
    last.op = "updateHeader"
        => /\ nimg # NoImage
           /\ last.err = "none"
                => /\ nimg.data = prev.nimg.data
                   /\ haveImageData(nimg) = haveImageData(prev.nimg)
                   /\ nimg.fname = prev.nimg.fname
           /\ last.err # "none" => nimg = prev.nimg

\* an updateHeader that changed the header of an object with its data in
\* memory, after a call that put data there or changed it
C20_Witness ==
    /\ last.op = "updateHeader" /\ last.err = "none"
    /\ calls >= 2
    /\ nimg.h # prev.nimg.h
    /\ haveImageData(nimg)
    /\ nimg.data = prev.nimg.data

====
